---- MODULE Spec2Model ----
(***************************************************************************)
(* Model of pytwot's cursor pagination (src/pytwot/paginations.py), of the *)
(* payload normalisation (PayloadParser, src/pytwot/parser.py) and of the  *)
(* webhook event classifier (EventParser, src/pytwot/parser.py, with the   *)
(* event classes of src/pytwot/events.py).                                 *)
(*                                                                         *)
(* Four specifications share the module:                                   *)
(*   Spec        one pagination cursor                                     *)
(*   ParserSpec  calls of the pure PayloadParser functions                 *)
(*   EventSpec   one EventParser fed a stream of webhook deliveries        *)
(*   ConcSpec    two invocations of next_page / previous_page on one       *)
(*               cursor, interleaved statement by statement                *)
(* The variables of the other parts are idle in each of them.              *)
(*                                                                         *)
(* One cursor object is modelled.  Its class (UserPagination,              *)
(* TweetPagination, ListPagination, MessagePagination) and the first page  *)
(* it is constructed from are chosen in Init; next_page and previous_page  *)
(* are the two operations, each taking the transport's response as input.  *)
(*                                                                         *)
(* Python values:                                                          *)
(*   None            the token "<None>" / a record with present = FALSE    *)
(*   a raw item      [id |-> i, lvl |-> 0]                                 *)
(*   item_type(x)    [id |-> x.id, lvl |-> x.lvl + 1]                      *)
(*   an ordered dict a sequence in insertion order                         *)
(***************************************************************************)
EXTENDS Integers, Sequences, FiniteSets, TLC

VARIABLES
    kind,                 \* which Pagination subclass the cursor is
    strictDecoder,        \* does item_type raise when handed a non-raw item
    constructed,          \* FALSE when __init__ raised
    page1,                \* the payload handed to __init__
    original_payload,     \* self.__original_payload
    payload,              \* self._payload
    next_token,           \* self._next_token
    previous_token,       \* self._previous_token
    current_page_number,  \* self._current_page_number
    params,               \* self._params["pagination_token"] / ["cursor"]
    pages_cache,          \* self.pages_cache
    trail,                \* the calls made so far: operation, outcome, fetched
    res                   \* the transport's response to the last call

vars == <<kind, strictDecoder, constructed, page1, original_payload, payload,
          next_token, previous_token, current_page_number, params,
          pages_cache, trail, res>>

VARIABLES
    pcall,                \* the last PayloadParser call: function, input, result
    client_id,            \* EventParser.client_id
    user_cache,           \* http_client.user_cache
    tweet_cache,          \* http_client.tweet_cache
    message_cache,        \* http_client.message_cache
    dispatched,           \* the http_client.dispatch calls of the last delivery
    ecall,                \* the last delivery: method, payload, what it raised
    seen                  \* ids of the participants of the deliveries processed

parserVars == <<pcall>>

eventVars == <<client_id, user_cache, tweet_cache, message_cache, dispatched, ecall, seen>>

VARIABLES
    serialized,           \* are the calls on the cursor made under one lock
    meta,                 \* self._meta
    threads               \* per invocation: position in the method and locals

concVars == <<serialized, meta, threads>>

allVars == <<vars, parserVars, eventVars, concVars>>

ParserIdle == pcall = [fn |-> "none"]

EventsIdle ==
    /\ client_id = 0
    /\ user_cache = <<>>
    /\ tweet_cache = <<>>
    /\ message_cache = <<>>
    /\ dispatched = <<>>
    /\ ecall = [method |-> "none"]
    /\ seen = {}

\* ---------------------------------------------------------------- bounds
MaxSteps == 2

MaxMentions == 2

\* ---------------------------------------------------------------- values
None == "<None>"

Kinds == {"user", "tweet", "list", "message"}

Tokens == {None, "a"}

Raw(i) == [id |-> i, lvl |-> 0]

\* the data lists of the sample pages: an empty page, two pages with the same
\* first item, a page with another first item and one with a repeated id
ItemLists == {<<>>, <<Raw(1)>>, <<Raw(2), Raw(1)>>, <<Raw(1), Raw(2), Raw(1)>>}

Data(s) == [present |-> TRUE, items |-> s]

NoData == [present |-> FALSE, items |-> <<>>]

Meta(n, p) == [present |-> TRUE, next_token |-> n, previous_token |-> p]

NoMeta == [present |-> FALSE, next_token |-> None, previous_token |-> None]

Users(s) == [present |-> TRUE, items |-> s]

NoUsers == [present |-> FALSE, items |-> <<>>]

Page(d, m, u) == [nil |-> FALSE, data |-> d, meta |-> m, users |-> u]

\* a falsy response of http_client.request (None or {})
NoRes == [nil |-> TRUE, data |-> NoData, meta |-> NoMeta, users |-> NoUsers]

HasAuthors(k) == k \in {"tweet", "list"}

\* includes.users of a well-formed page of class k
Author(k) == IF HasAuthors(k) THEN Users(<<9>>) ELSE NoUsers

\* The page payloads the transport can hand to a cursor of class k: every
\* well-formed page over ItemLists and Tokens, and pages that lack "data",
\* "meta" or "includes", or whose includes.users is empty.  A message page is
\* the v1.1 shape: data stands for "events", meta for the next_cursor and
\* previous_cursor keys (an absent key is a None token).
Pages(k) ==
    {Page(Data(s), Meta(n, p), Author(k)) : s \in ItemLists, n \in Tokens, p \in Tokens}
    \cup {Page(NoData, Meta("a", "a"), Author(k))}
    \cup (IF k = "message" THEN {} ELSE {Page(Data(<<Raw(1)>>), NoMeta, Author(k))})
    \cup (IF HasAuthors(k)
          THEN {Page(Data(<<Raw(2), Raw(1)>>), Meta("a", "a"), NoUsers),
                Page(Data(<<Raw(1)>>), Meta("a", "a"), Users(<<>>))}
          ELSE {})

Responses(k) == {NoRes} \cup Pages(k)

ConcIdle ==
    /\ serialized = TRUE
    /\ meta = NoMeta
    /\ threads = <<>>

\* "if not self._next_token" / "if not self._previous_token"
FalsyEmptyOnly(t) == t = ""
Falsy(t) == t \in {None, ""}

\* "if not res"
NeverEmpty(r) == FALSE
IsEmpty(r) == r.nil

\* ------------------------------------------------------- domain objects
\* item_type(data, http_client=...)
Decode(x) == [id |-> x.id, lvl |-> x.lvl + 1]

\* a == b on two decoded items
ItemEq(a, b) == a.id = b.id

RECURSIVE DecodeAll(_)
DecodeAll(s) == IF s = <<>> THEN <<>> ELSE <<Decode(Head(s))>> \o DecodeAll(Tail(s))

Ok(items) == [err |-> "", items |-> items]
Raise(e) == [err |-> e, items |-> <<>>]

\* ------------------------------------------------------------ parser.py
insert_pagination_object_author(p) ==
    IF ~p.data.present THEN Raise("KeyError")
    ELSE IF p.data.items # <<>> /\ p.users.present /\ p.users.items = <<>>
         THEN Raise("IndexError")
    ELSE Ok([i \in 1..Len(p.data.items) |->
                [data |-> p.data.items[i],
                 users |-> <<IF p.users.present THEN p.users.items[1] ELSE 0>>]])

parse_message_to_pagination_data(p) ==
    IF p.data.items = <<>>
    THEN [err |-> "KeyError", page |-> p]
    ELSE [err |-> "",
          page |-> [p EXCEPT !.meta = Meta(p.meta.next_token, p.meta.previous_token)]]

\* ------------------------------------------------------- paginations.py
\* Pagination.content / TweetPagination.content / ListPagination.content
content(k, strict, op, pl) ==
    IF HasAuthors(k)
    THEN LET w == insert_pagination_object_author(op) IN
         IF w.err # "" THEN w
         ELSE Ok([i \in 1..Len(w.items) |-> Decode(w.items[i].data)])
    ELSE IF ~pl.present THEN Raise("TypeError")
    ELSE IF strict /\ \E i \in 1..Len(pl.items) : pl.items[i].lvl > 0
         THEN Raise("AttributeError")
    ELSE Ok(DecodeAll(pl.items))

\* dict: d[k] = v
DictSet(d, k, v) ==
    IF \E i \in 1..Len(d) : d[i].key = k
    THEN [i \in 1..Len(d) |-> IF d[i].key = k THEN [key |-> k, items |-> v] ELSE d[i]]
    ELSE Append(d, [key |-> k, items |-> v])

\* dict: d.get(k)
DictGet(d, k) ==
    IF \E i \in 1..Len(d) : d[i].key = k
    THEN [present |-> TRUE, items |-> d[CHOOSE i \in 1..Len(d) : d[i].key = k].items]
    ELSE [present |-> FALSE, items |-> <<>>]

\* {obj.id: obj for obj in items}, as the list of its values
RECURSIVE DictComp(_)
DictComp(s) ==
    IF s = <<>> THEN <<>>
    ELSE LET init == DictComp(SubSeq(s, 1, Len(s) - 1))
             x == s[Len(s)]
         IN IF \E i \in 1..Len(init) : init[i].id = x.id
            THEN [i \in 1..Len(init) |-> IF init[i].id = x.id THEN x ELSE init[i]]
            ELSE Append(init, x)

get_page_content(cache, page_number) ==
    LET c == DictGet(cache, page_number) IN
    IF ~c.present \/ c.items = <<>>
    THEN [present |-> FALSE, items |-> <<>>]
    ELSE [present |-> TRUE, items |-> c.items]

pages(cache) ==
    LET fulldata == [i \in 1..Len(cache) |-> DictGet(cache, cache[i].key).items]
    IN [i \in 1..Len(cache) |-> <<i, fulldata[i]>>]

\* the cursor's fields, as one record
Fields(cpn, op, pl, nt, pt, cache) ==
    [cpn |-> cpn, op |-> op, pl |-> pl, nt |-> nt, pt |-> pt, cache |-> cache]

Outcome(st, result, fetched) == [st |-> st, result |-> result, fetched |-> fetched]

\* Pagination.__init__, preceded for MessagePagination by the normalisation of
\* the first page
Construct(k, strict, p) ==
    LET blank == Fields(1, p, NoData, None, None, <<>>)
        norm == IF k = "message" THEN parse_message_to_pagination_data(p)
                ELSE [err |-> "", page |-> p]
        op == norm.page
        st == Fields(1, op, op.data, op.meta.next_token, op.meta.previous_token, <<>>)
        c == content(k, strict, op, op.data)
    IN IF norm.err # "" THEN Outcome(blank, norm.err, FALSE)
       ELSE IF ~op.meta.present THEN Outcome(blank, "AttributeError", FALSE)
       ELSE IF c.err # "" THEN Outcome(blank, c.err, FALSE)
       ELSE Outcome([st EXCEPT !.cache = <<[key |-> 1, items |-> DictComp(c.items)]>>],
                    "ok", FALSE)

\* self.original_payload = ...; self.payload = ... of the four subclasses
ReplacePayloadLagging(k, strict, st, r) ==
    [err |-> "", st |-> [st EXCEPT !.op = r, !.pl = st.op.data]]
ReplacePayload(k, strict, st, r) ==
    IF k = "user"
    THEN [err |-> "", st |-> [st EXCEPT !.op = r, !.pl = r.data]]
    ELSE IF HasAuthors(k)
    THEN LET c == content(k, strict, r, st.pl) IN
         IF c.err # "" THEN [err |-> c.err, st |-> [st EXCEPT !.op = r]]
         ELSE [err |-> "",
               st |-> [st EXCEPT !.op = r, !.pl = [present |-> TRUE, items |-> c.items]]]
    ELSE LET n == parse_message_to_pagination_data(r)
             c == content(k, strict, n.page, st.pl)
         IN IF n.err # "" THEN [err |-> n.err, st |-> st]
            ELSE IF c.err # "" THEN [err |-> c.err, st |-> [st EXCEPT !.op = n.page]]
            ELSE [err |-> "",
                  st |-> [st EXCEPT !.op = n.page,
                                    !.pl = [present |-> TRUE, items |-> c.items]]]

\* the key a newly visited page is cached under
CacheKeyIsPageNumber(st) == st.cpn
CacheKey(st) == Len(st.cache) + 1

\* the last statement of next_page / previous_page
CachePage(k, strict, st, previous_content) ==
    LET c == content(k, strict, st.op, st.pl) IN
    IF previous_content = <<>> THEN Outcome(st, "IndexError", TRUE)
    ELSE IF c.err # "" THEN Outcome(st, c.err, TRUE)
    ELSE IF c.items = <<>> THEN Outcome(st, "IndexError", TRUE)
    ELSE IF ~ItemEq(previous_content[1], c.items[1])
         THEN Outcome([st EXCEPT !.cache = DictSet(@, CacheKey(st), DictComp(c.items))],
                      "ok", TRUE)
    ELSE Outcome(st, "ok", TRUE)

\* the body of next_page (delta = 1, tok = self._next_token) and of
\* previous_page (delta = -1, tok = self._previous_token) after the token is
\* stored in self._params and the transport has answered r
Step(k, strict, cur, delta, tok, r) ==
    IF Falsy(tok) THEN Outcome(cur, "NoPageAvailable", FALSE)
    ELSE IF IsEmpty(r) THEN Outcome(cur, "NoPageAvailable", TRUE)
    ELSE LET prev == content(k, strict, cur.op, cur.pl) IN
         IF prev.err # "" THEN Outcome(cur, prev.err, TRUE)
         ELSE LET moved == [cur EXCEPT !.cpn = @ + delta]
                  rep == ReplacePayload(k, strict, moved, r)
              IN IF rep.err # "" THEN Outcome(rep.st, rep.err, TRUE)
                 ELSE IF ~rep.st.op.meta.present
                      THEN Outcome(rep.st, "AttributeError", TRUE)
                 ELSE CachePage(k, strict,
                                [rep.st EXCEPT !.nt = rep.st.op.meta.next_token,
                                               !.pt = rep.st.op.meta.previous_token],
                                prev.items)

Current == Fields(current_page_number, original_payload, payload, next_token,
                  previous_token, pages_cache)

\* ---------------------------------------------------------- the machine
Init ==
    /\ kind \in Kinds
    /\ strictDecoder \in (IF kind = "message" THEN BOOLEAN ELSE {FALSE})
    /\ page1 \in Pages(kind)
    /\ LET o == Construct(kind, strictDecoder, page1) IN
        /\ constructed = (o.result = "ok")
        /\ original_payload = o.st.op
        /\ payload = o.st.pl
        /\ next_token = o.st.nt
        /\ previous_token = o.st.pt
        /\ current_page_number = o.st.cpn
        /\ pages_cache = o.st.cache
        /\ trail = <<[op |-> "init", result |-> o.result, fetched |-> FALSE]>>
    /\ params = None
    /\ res = NoRes
    /\ ParserIdle
    /\ EventsIdle
    /\ ConcIdle

Call(name, delta, tok) ==
    /\ constructed
    /\ Len(trail) <= MaxSteps
    /\ \E r \in Responses(kind) :
        LET o == Step(kind, strictDecoder, Current, delta, tok, r) IN
        /\ (~o.fetched => r = NoRes)
        /\ original_payload' = o.st.op
        /\ payload' = o.st.pl
        /\ next_token' = o.st.nt
        /\ previous_token' = o.st.pt
        /\ current_page_number' = o.st.cpn
        /\ pages_cache' = o.st.cache
        /\ params' = IF Falsy(tok) THEN params ELSE tok
        /\ trail' = Append(trail, [op |-> name, result |-> o.result, fetched |-> o.fetched])
        /\ res' = r
    /\ UNCHANGED <<kind, strictDecoder, constructed, page1>>
    /\ UNCHANGED <<parserVars, eventVars, concVars>>

NextPageNoIncrement == Call("next", 0, next_token)
next_page == Call("next", 1, next_token)

previous_page == Call("previous", -1, previous_token)

Next == next_page \/ previous_page

Spec == Init /\ [][Next]_allVars

\* ------------------------------------------------------------ properties
Last == trail[Len(trail)]

\* a call of next_page or previous_page is the step from the unprimed state
StepTaken == Len(trail') = Len(trail) + 1

\* the token that call reads
UsedToken == IF Last'.op = "next" THEN next_token ELSE previous_token

CursorUnchanged ==
    UNCHANGED <<original_payload, payload, next_token, previous_token,
                current_page_number, pages_cache>>

Ids(items) == [i \in 1..Len(items) |-> items[i].id]

IdSet(items) == {items[i].id : i \in 1..Len(items)}

CurrentContent == content(kind, strictDecoder, original_payload, payload)

\* C1: for each of the four cursor classes, next_page called while
\* next_token is None, and previous_page called while previous_token is None,
\* raises NoPageAvailable without calling the transport (and changes nothing).
C1_NoTokenNoFetch ==
    [][(StepTaken /\ UsedToken = None)
         => /\ Last'.result = "NoPageAvailable"
            /\ ~Last'.fetched
            /\ res' = NoRes
            /\ CursorUnchanged /\ UNCHANGED params]_vars

C1_Witness ==
    /\ kind = "message"
    /\ Last.op = "previous" /\ Last.result = "NoPageAvailable" /\ ~Last.fetched
    /\ previous_token = None /\ next_token = "a"

\* C2: current_page_number is 1 after construction and at least 1 in every
\* state reached by next_page and previous_page calls.
C2_PageNumberAtLeastOne ==
    constructed => /\ current_page_number >= 1
                   /\ (Len(trail) = 1 => current_page_number = 1)

\* C3: get_page_content(0) returns None in every state of a constructed cursor.
C3_PageZeroAbsent == constructed => ~get_page_content(pages_cache, 0).present

C3_Witness ==
    constructed /\ current_page_number = 0 /\ Len(pages_cache) >= 2
                /\ Last.result = "ok"

\* C4: construct from page 1, next_page, then previous_page answered with page
\* 1's payload, both succeeding: content then has the item ids of page 1.
RoundTrip ==
    /\ Len(trail) = 3
    /\ trail[2] = [op |-> "next", result |-> "ok", fetched |-> TRUE]
    /\ trail[3] = [op |-> "previous", result |-> "ok", fetched |-> TRUE]
    /\ res = page1

C4_RoundTrip ==
    RoundTrip => /\ CurrentContent.err = ""
                 /\ IdSet(CurrentContent.items) = IdSet(page1.data.items)

C4_Witness ==
    /\ RoundTrip /\ kind = "user"
    /\ Len(pages_cache) = 3
    /\ IdSet(pages_cache[2].items) # IdSet(page1.data.items)

\* C5: a call whose token is present and whose fetch returns nothing raises
\* NoPageAvailable and leaves page number, payload, tokens and cache as they
\* were; only the cursor parameter of the request has been set, to that token.
C5_EmptyFetchChangesNothing ==
    [][(StepTaken /\ ~Falsy(UsedToken) /\ res' = NoRes)
         => /\ Last'.result = "NoPageAvailable"
            /\ Last'.fetched
            /\ CursorUnchanged
            /\ params' = UsedToken]_vars

C5_Witness ==
    /\ Last.op \in {"next", "previous"} /\ Last.fetched /\ res = NoRes
    /\ Last.result = "NoPageAvailable" /\ params = "a"

\* C6: a successful next_page adds exactly 1 to current_page_number, a
\* successful previous_page subtracts exactly 1, and afterwards the two tokens
\* are meta.next_token and meta.previous_token of the fetched response (None
\* when the response has none).
C6_SuccessfulStep ==
    [][(StepTaken /\ Last'.result = "ok")
         => /\ current_page_number' =
                  current_page_number + (IF Last'.op = "next" THEN 1 ELSE -1)
            /\ res'.meta.present
            /\ next_token' = res'.meta.next_token
            /\ previous_token' = res'.meta.previous_token]_vars

C6_Witness ==
    /\ Len(trail) = 3
    /\ trail[2].op = "next" /\ trail[2].result = "ok"
    /\ Last.op = "previous" /\ Last.result = "ok"
    /\ current_page_number = 1
    /\ next_token = None /\ previous_token = "a"

\* C7: right after construction pages_cache has exactly one entry, keyed 1,
\* holding the decoded items of the first page by id, also when the first
\* page's data is empty or missing.
C7_CacheAtConstruction ==
    (Len(trail) = 1 /\ page1.meta.present /\ page1.users = Author(kind))
        => /\ constructed
           /\ pages_cache = <<[key |-> 1, items |-> DictComp(DecodeAll(page1.data.items))]>>

\* C8: get_page_content(n) returns the cached items whenever pages_cache has
\* an entry for n, also one with zero items, and None exactly when it has none.
C8_PageContentIffCached ==
    constructed =>
        \A n \in -1..(Len(pages_cache) + 1) :
            LET c == DictGet(pages_cache, n)
                g == get_page_content(pages_cache, n)
            IN /\ g.present = c.present
               /\ g.present => g.items = c.items

\* C9: pages has exactly one pair per cache entry, numbered 1..N in order,
\* and pair k carries the content cached under key k.
C9_PagesNumbered ==
    constructed =>
        LET p == pages(pages_cache) IN
        /\ Len(p) = Len(pages_cache)
        /\ \A k \in 1..Len(p) :
              /\ p[k][1] = k
              /\ DictGet(pages_cache, k).present
              /\ p[k][2] = DictGet(pages_cache, k).items

C9_Witness ==
    /\ constructed /\ Len(pages_cache) = 3 /\ current_page_number = 1
    /\ pages(pages_cache)[3][2] # pages(pages_cache)[2][2]

\* C10: after a successful next_page or previous_page on a message cursor,
\* content is the decoded items of the page just fetched.
C10_MessageContentIsNewPage ==
    (kind = "message" /\ Len(trail) > 1 /\ Last.result = "ok")
        => /\ CurrentContent.err = ""
           /\ Ids(CurrentContent.items) = Ids(res.data.items)

\* the decoded items of the page a call has just fetched
NewPage == DecodeAll(res'.data.items)

\* C23: a successful next_page or previous_page adds exactly one entry to
\* pages_cache, keyed by the size before the step plus one and holding the
\* new page's items by id, if and only if the first item of the new page
\* differs from the first item of the page that was current; otherwise
\* pages_cache is unchanged.
C23_CacheGrowsIffFirstItemDiffers ==
    [][(StepTaken /\ Last'.result = "ok")
         => /\ CurrentContent.items # <<>>
            /\ NewPage # <<>>
            /\ IF ItemEq(CurrentContent.items[1], NewPage[1])
               THEN pages_cache' = pages_cache
               ELSE pages_cache' =
                       Append(pages_cache, [key |-> Len(pages_cache) + 1,
                                            items |-> DictComp(NewPage)])]_vars

\* C24: no call of next_page or previous_page, successful or failing, removes
\* or rewrites an entry of pages_cache: every entry keeps its key and its
\* content, and the number of entries never decreases.
C24_NeverEvicted ==
    [][/\ Len(pages_cache') >= Len(pages_cache)
       /\ \A i \in 1..Len(pages_cache) :
            /\ DictGet(pages_cache', pages_cache[i].key).present
            /\ DictGet(pages_cache', pages_cache[i].key).items = pages_cache[i].items]_vars

C24_Witness ==
    /\ Len(trail) = 3
    /\ trail[2].result = "ok" /\ Last.result \notin {"ok", "NoPageAvailable"}
    /\ Len(pages_cache) = 2
    /\ current_page_number = 1

\* C25: next_page then previous_page back to the first page, both successful,
\* the second page having another first item than the first: pages_cache then
\* holds the first page's content again under key 3, cached while
\* current_page_number was 1.
C25_KeyNotPageNumber ==
    (RoundTrip /\ DictGet(pages_cache, 2).present)
        => /\ current_page_number = 1
           /\ DictGet(pages_cache, 3).present
           /\ DictGet(pages_cache, 3).items = DictGet(pages_cache, 1).items
           /\ DictGet(pages_cache, 3).items = DictComp(CurrentContent.items)

C25_Witness ==
    /\ RoundTrip /\ kind = "tweet"
    /\ current_page_number = 1
    /\ Len(pages_cache) = 3
    /\ pages_cache[3].key = 3
    /\ pages_cache[3].items = pages_cache[1].items

\* C26: the keys of pages_cache are exactly 1..Len(pages_cache), in every
\* state of a constructed cursor.
C26_KeysContiguous ==
    constructed =>
        /\ Len(pages_cache) >= 1
        /\ \A i \in 1..Len(pages_cache) : pages_cache[i].key = i

C26_Witness ==
    /\ constructed /\ Len(pages_cache) = 3 /\ current_page_number = 3
    /\ Last.result = "ok"

\* C27: a call of next_page or previous_page that fails leaves
\* current_page_number, the tokens, the payload and pages_cache as they were.
C27_AllOrNothing ==
    [][(StepTaken /\ Last'.result # "ok") => CursorUnchanged]_vars

\* ====================================================== PayloadParser
\* A Python mapping is a record with one field per key; a key that is absent
\* (or whose dict.get gives None) is a record with present = FALSE.
Some(x) == [present |-> TRUE, v |-> x]

NoInt == [present |-> FALSE, v |-> 0]

NoStr == [present |-> FALSE, v |-> ""]

NoUserMetrics ==
    [present |-> FALSE,
     v |-> [followers_count |-> NoInt, following_count |-> NoInt,
            tweet_count |-> NoInt, listed_count |-> NoInt]]

\* a v1.1 user object
LegacyUser(id, followers, friends, statuses, created, screen_name, image) ==
    [id |-> id, followers_count |-> followers, friends_count |-> friends,
     statuses_count |-> statuses, created_timestamp |-> created,
     screen_name |-> screen_name, profile_image_url_https |-> image,
     public_metrics |-> NoUserMetrics, created_at |-> NoStr,
     username |-> NoStr, profile_image_url |-> NoStr]

Counts == {NoInt, Some(0), Some(5)}

UserPayloads ==
    {LegacyUser("10", fo, fr, st, ct, sn, im) :
        fo \in Counts, fr \in Counts, st \in Counts,
        ct \in {NoStr, Some("1500000000000")},
        sn \in {NoStr, Some("alice")},
        im \in {NoStr, Some("https://pbs/a.png")}}

\* the user object a webhook delivery embeds for the user with this id
WireUser(id) ==
    LegacyUser(id, Some(5), Some(0), Some(5), Some("1500000000000"),
               Some("alice"), Some("https://pbs/a.png"))

\* copy["public_metrics"] = {...}
UserMetricsFromFollowers(copy) ==
    Some([followers_count |-> copy.followers_count,
          following_count |-> copy.followers_count,
          tweet_count |-> copy.statuses_count,
          listed_count |-> Some(0)])
UserMetrics(copy) ==
    Some([followers_count |-> copy.followers_count,
          following_count |-> copy.friends_count,
          tweet_count |-> copy.statuses_count,
          listed_count |-> Some(0)])

\* the caller's mapping after the call: the function wrote to payload.copy()
WrittenInPlace(pl, written) == written
CallerMapping(pl, written) == pl

parse_user_payload(pl) ==
    LET c1 == [pl EXCEPT !.public_metrics = UserMetrics(pl)]
        c2 == IF c1.created_timestamp.present
              THEN [c1 EXCEPT !.created_at = c1.created_timestamp] ELSE c1
        c3 == IF c2.screen_name.present
              THEN [c2 EXCEPT !.username = c2.screen_name] ELSE c2
        c4 == IF c3.profile_image_url_https.present
              THEN [c3 EXCEPT !.profile_image_url = c3.profile_image_url_https] ELSE c3
    IN [input |-> CallerMapping(pl, c4), out |-> c4, err |-> ""]

Mention(name) == [screen_name |-> name]

MentionVals == {Mention(Some("a")), Mention(Some("b")), Mention(NoStr)}

NoMentions == [present |-> FALSE, items |-> <<>>]

Mentions(s) == [present |-> TRUE, items |-> s]

NoEntities == [present |-> FALSE, user_mentions |-> NoMentions]

Entities(um) == [present |-> TRUE, user_mentions |-> um]

EntitiesVals ==
    {NoEntities, Entities(NoMentions)} \cup
    {Entities(Mentions(s)) : s \in UNION {[1..n -> MentionVals] : n \in 0..MaxMentions}}

NoTweetMetrics ==
    [present |-> FALSE,
     v |-> [quote_count |-> NoInt, reply_count |-> NoInt,
            retweet_count |-> NoInt, like_count |-> NoInt]]

NoNames == [present |-> FALSE, items |-> <<>>]

NoIncludes == [present |-> FALSE, mentions |-> NoNames, users |-> NoUsers]

EmptyIncludes == [present |-> TRUE, mentions |-> NoNames, users |-> NoUsers]

NoEmbeddedUser == [present |-> FALSE, v |-> WireUser("0")]

\* a v1.1 tweet object
LegacyTweet(id, favorites, entities, timestamp_ms, user) ==
    [id |-> id, quote_count |-> Some(1), reply_count |-> Some(2),
     retweet_count |-> NoInt, favorite_count |-> favorites,
     entities |-> entities, timestamp_ms |-> timestamp_ms, user |-> user,
     public_metrics |-> NoTweetMetrics, includes |-> NoIncludes,
     timestamp |-> NoStr]

TweetPayloads ==
    {LegacyTweet("100", fa, en, ts, us) :
        fa \in {NoInt, Some(3)}, en \in EntitiesVals,
        ts \in {NoStr, Some("1500000000000")},
        us \in {NoEmbeddedUser, Some(WireUser("10"))}}

\* the tweet object a webhook delivery embeds for the tweet with this id
WireTweet(id) ==
    LegacyTweet(id, Some(3), Entities(Mentions(<<Mention(Some("a"))>>)),
                Some("1500000000000"), Some(WireUser("10")))

\* payload["public_metrics"] = {...}
TweetMetrics(pl) ==
    Some([quote_count |-> pl.quote_count, reply_count |-> pl.reply_count,
          retweet_count |-> pl.retweet_count, like_count |-> pl.favorite_count])

\* [user.get("screen_name") for user in ...]
MentionNamesReversed(items) ==
    [i \in 1..Len(items) |-> items[Len(items) + 1 - i].screen_name]
MentionNames(items) == [i \in 1..Len(items) |-> items[i].screen_name]

parse_tweet_payload(pl) ==
    LET p1 == [pl EXCEPT !.public_metrics = TweetMetrics(pl),
                              !.includes = EmptyIncludes]
        p2 == [p1 EXCEPT !.includes.mentions =
                  [present |-> TRUE, items |-> MentionNames(p1.entities.user_mentions.items)]]
        p3 == IF p2.timestamp_ms.present
              THEN [p2 EXCEPT !.timestamp = p2.timestamp_ms] ELSE p2
        p4 == IF p3.user.present
              THEN [p3 EXCEPT !.includes.users =
                       [present |-> TRUE, items |-> <<parse_user_payload(p3.user.v).out>>]]
              ELSE p3
    IN IF ~p1.entities.present
       THEN [input |-> p1, out |-> p1, err |-> "AttributeError"]
       ELSE IF ~p1.entities.user_mentions.present
       THEN [input |-> p1, out |-> p1, err |-> "TypeError"]
       ELSE [input |-> p4, out |-> p4, err |-> ""]

\* the page payloads insert_pagination_object_author is applied to
AuthorPages ==
    Pages("tweet") \cup
    {Page(Data(s), Meta(None, None), Users(<<9, 8>>)) : s \in ItemLists}

\* ------------------------------------------------- parse_metric_data
MaxKeys == 2

\* the values of a metric mapping: a string (its characters), an integer,
\* None
MStr(chars) == [tag |-> "str", chars |-> chars, n |-> 0]

MInt(n) == [tag |-> "int", chars |-> <<>>, n |-> n]

MNone == [tag |-> "none", chars |-> <<>>, n |-> 0]

\* the class object, returned by convert in place of a value
Sentinel == [tag |-> "object", chars |-> <<>>, n |-> 0]

MetricValues ==
    {MStr(<<"1", "2">>), MStr(<<"-", "3">>), MStr(<<" ", "7">>),
     MStr(<<"x">>), MStr(<<>>), MInt(0), MNone}

MetricKeys == <<"a", "b", "c", "d">>

\* mappings of up to MaxKeys keys
MetricPayloads ==
    UNION {{[i \in 1..k |-> [key |-> MetricKeys[i], value |-> f[i]]] :
               f \in [1..k -> MetricValues]} : k \in 0..MaxKeys}

Digits == <<"0", "1", "2", "3", "4", "5", "6", "7", "8", "9">>

IsDigit(c) == \E i \in 1..10 : Digits[i] = c

DigitVal(c) == (CHOOSE i \in 1..10 : Digits[i] = c) - 1

\* str.strip() of the blanks around a numeral
RECURSIVE Strip(_)
Strip(chars) ==
    IF chars = <<>> THEN chars
    ELSE IF Head(chars) = " " THEN Strip(Tail(chars))
    ELSE IF chars[Len(chars)] = " " THEN Strip(SubSeq(chars, 1, Len(chars) - 1))
    ELSE chars

\* the value of a run of decimal digits; anything else is not a numeral
RECURSIVE DigitRun(_)
DigitRun(chars) ==
    IF chars = <<>> THEN [ok |-> FALSE, n |-> 0]
    ELSE IF ~IsDigit(chars[Len(chars)]) THEN [ok |-> FALSE, n |-> 0]
    ELSE IF Len(chars) = 1 THEN [ok |-> TRUE, n |-> DigitVal(chars[1])]
    ELSE LET init == DigitRun(SubSeq(chars, 1, Len(chars) - 1)) IN
         [ok |-> init.ok, n |-> 10 * init.n + DigitVal(chars[Len(chars)])]

\* int(o)
PyInt(o) ==
    IF o.tag = "int" THEN [err |-> "", n |-> o.n]
    ELSE IF o.tag # "str" THEN [err |-> "TypeError", n |-> 0]
    ELSE LET t == Strip(o.chars)
             signed == t # <<>> /\ t[1] \in {"+", "-"}
             run == DigitRun(IF signed THEN Tail(t) ELSE t)
         IN IF ~run.ok THEN [err |-> "ValueError", n |-> 0]
            ELSE [err |-> "", n |-> IF signed /\ t[1] = "-" THEN 0 - run.n ELSE run.n]

\* utils.convert(o, int)
ConvertZeroOnFailure(o) ==
    LET r == PyInt(o) IN
    IF r.err \in {"ValueError", "TypeError"} THEN MInt(0) ELSE MInt(r.n)
convert(o) ==
    LET r == PyInt(o) IN
    IF r.err \in {"ValueError", "TypeError"} THEN Sentinel ELSE MInt(r.n)

\* d = {}; for k, v in payload.items(): d[k] = convert(v, int)
RECURSIVE parse_metric_data(_)
parse_metric_data(pl) ==
    IF pl = <<>> THEN <<>>
    ELSE DictSet(parse_metric_data(SubSeq(pl, 1, Len(pl) - 1)),
                 pl[Len(pl)].key, convert(pl[Len(pl)].value))

\* ---------------------------------------------------------- ParserSpec
CursorIdle ==
    /\ kind = "user"
    /\ strictDecoder = FALSE
    /\ constructed = FALSE
    /\ page1 = NoRes
    /\ original_payload = NoRes
    /\ payload = NoData
    /\ next_token = None
    /\ previous_token = None
    /\ current_page_number = 1
    /\ params = None
    /\ pages_cache = <<>>
    /\ trail = <<>>
    /\ res = NoRes

ParserInit == CursorIdle /\ ParserIdle /\ EventsIdle /\ ConcIdle

NormalizeUser ==
    /\ \E P \in UserPayloads :
        LET r == parse_user_payload(P) IN
        pcall' = [fn |-> "parse_user_payload", arg |-> P, after |-> r.input,
                  out |-> r.out, err |-> r.err]
    /\ UNCHANGED <<vars, eventVars, concVars>>

NormalizeTweet ==
    /\ \E P \in TweetPayloads :
        LET r == parse_tweet_payload(P) IN
        pcall' = [fn |-> "parse_tweet_payload", arg |-> P, after |-> r.input,
                  out |-> r.out, err |-> r.err]
    /\ UNCHANGED <<vars, eventVars, concVars>>

InjectPaginationAuthors ==
    /\ \E P \in AuthorPages :
        LET r == insert_pagination_object_author(P) IN
        pcall' = [fn |-> "insert_pagination_object_author", arg |-> P, after |-> P,
                  out |-> r.items, err |-> r.err]
    /\ UNCHANGED <<vars, eventVars, concVars>>

NormalizeMetricMapping ==
    /\ \E P \in MetricPayloads :
        pcall' = [fn |-> "parse_metric_data", arg |-> P, after |-> P,
                  out |-> parse_metric_data(P), err |-> ""]
    /\ UNCHANGED <<vars, eventVars, concVars>>

ParserNext ==
    \/ NormalizeUser
    \/ NormalizeTweet
    \/ InjectPaginationAuthors
    \/ NormalizeMetricMapping

ParserSpec == ParserInit /\ [][ParserNext]_allVars

\* C16: parse_user_payload(P).public_metrics has followers_count =
\* P.followers_count, following_count = P.friends_count, tweet_count =
\* P.statuses_count and listed_count = 0, for every legacy user payload P.
C16_UserMetrics ==
    pcall.fn = "parse_user_payload" =>
        /\ pcall.err = ""
        /\ pcall.out.public_metrics.present
        /\ pcall.out.public_metrics.v.followers_count = pcall.arg.followers_count
        /\ pcall.out.public_metrics.v.following_count = pcall.arg.friends_count
        /\ pcall.out.public_metrics.v.tweet_count = pcall.arg.statuses_count
        /\ pcall.out.public_metrics.v.listed_count = Some(0)

C16_Witness ==
    /\ pcall.fn = "parse_user_payload"
    /\ pcall.arg.followers_count = Some(5)
    /\ pcall.arg.friends_count = Some(0)
    /\ pcall.arg.statuses_count = NoInt
    /\ pcall.out.public_metrics.v.following_count = Some(0)

\* C17: parse_user_payload returns a new mapping and leaves its input as it
\* was: no public_metrics, created_at, username or profile_image_url key is
\* added to the input.
C17_UserInputUntouched ==
    pcall.fn = "parse_user_payload" =>
        /\ pcall.after = pcall.arg
        /\ ~pcall.after.public_metrics.present
        /\ ~pcall.after.created_at.present
        /\ ~pcall.after.username.present
        /\ ~pcall.after.profile_image_url.present
        /\ pcall.out # pcall.after

C17_Witness ==
    /\ pcall.fn = "parse_user_payload"
    /\ pcall.arg.screen_name.present /\ pcall.arg.created_timestamp.present
    /\ pcall.arg.profile_image_url_https.present
    /\ pcall.out.username = Some("alice")
    /\ pcall.out.created_at.present /\ pcall.out.profile_image_url.present

\* C18: for a tweet payload whose entities.user_mentions has length N,
\* parse_tweet_payload(P).includes.mentions has length N and its k-th element
\* is the screen_name of the k-th mention.
C18_MentionsInOrder ==
    (/\ pcall.fn = "parse_tweet_payload"
     /\ pcall.arg.entities.present
     /\ pcall.arg.entities.user_mentions.present)
        => LET um == pcall.arg.entities.user_mentions.items
               m == pcall.out.includes.mentions
           IN /\ pcall.err = ""
              /\ m.present
              /\ Len(m.items) = Len(um)
              /\ \A k \in 1..Len(um) : m.items[k] = um[k].screen_name

C18_Witness ==
    /\ pcall.fn = "parse_tweet_payload"
    /\ pcall.arg.entities.user_mentions.items = <<Mention(Some("b")), Mention(Some("a"))>>
    /\ pcall.out.includes.mentions.items = <<Some("b"), Some("a")>>

\* C19: parse_tweet_payload applied to a payload without entities (or without
\* user, or without timestamp_ms) returns normally, the corresponding output
\* (includes.mentions, includes.users, timestamp) left absent or empty.
C19_AbsentFieldsTolerated ==
    (/\ pcall.fn = "parse_tweet_payload"
     /\ (pcall.arg.entities.present => pcall.arg.entities.user_mentions.present))
        => /\ pcall.err = ""
           /\ (~pcall.arg.entities.present
                 => pcall.out.includes.mentions.items = <<>>)
           /\ (~pcall.arg.user.present => ~pcall.out.includes.users.present)
           /\ (~pcall.arg.timestamp_ms.present => ~pcall.out.timestamp.present)

\* C20: insert_pagination_object_author returns one wrapper per item of data,
\* in order, each holding the item and a one-element users list with the first
\* entry of the page's includes.users (None when there is none); it does not
\* fail when includes.users is absent or empty.
C20_OneWrapperPerItem ==
    (pcall.fn = "insert_pagination_object_author" /\ pcall.arg.data.present)
        => LET d == pcall.arg.data.items
               u == pcall.arg.users
           IN /\ pcall.err = ""
              /\ Len(pcall.out) = Len(d)
              /\ \A i \in 1..Len(d) :
                    /\ pcall.out[i].data = d[i]
                    /\ pcall.out[i].users =
                         <<IF u.present /\ u.items # <<>> THEN u.items[1] ELSE 0>>

\* what the integer reading of a metric value is, if it has one
Want(o) ==
    CASE o = MStr(<<"1", "2">>) -> Some(12)
      [] o = MStr(<<"-", "3">>) -> Some(0 - 3)
      [] o = MStr(<<" ", "7">>) -> Some(7)
      [] o = MInt(0) -> Some(0)
      [] OTHER -> NoInt

UserIds == {"1", "10", "20"}

TweetIds == {"100", "101"}

MessageIds == {"500"}

\* int(...) of an id string
IntOf(str) ==
    CASE str = "1" -> 1 [] str = "10" -> 10 [] str = "20" -> 20
      [] str = "100" -> 100 [] str = "101" -> 101
      [] str = "500" -> 500
      [] str = "1600" -> 1600
      [] OTHER -> 0

\* User(data, http_client=...): the object and its id
UserObject(data) == [id |-> IntOf(data.id)]

\* what an event payload holds: a mapping (tag "dict"), or the first character
\* of a string (tag "str")
Body(type, source, target, liker, tweet) ==
    [tag |-> "dict", type |-> type, source |-> source, target |-> target,
     liker |-> liker, tweet |-> tweet]

CharBody == [tag |-> "str", type |-> "", source |-> 0, target |-> 0, liker |-> 0, tweet |-> 0]

NoBody == [tag |-> "none", type |-> "", source |-> 0, target |-> 0, liker |-> 0, tweet |-> 0]

\* the objects handed to http_client.dispatch
Object(cls, id, ref, deleted, type_key, body) ==
    [cls |-> cls, id |-> id, ref |-> ref, deleted_timestamp |-> deleted,
     type_key |-> type_key, body |-> body]

\* Tweet(data, http_client=...)
TweetObject(data) == Object("Tweet", IntOf(data.id), "", NoInt, "", NoBody)

\* DirectMessage(event_payload, http_client=...)
DirectMessageObject(id) == Object("DirectMessage", IntOf(id), "", NoInt, "", NoBody)

\* Message(None, tweet_id, 1)
Placeholder(tweet_id) == Object("Message", 0, tweet_id, NoInt, "", NoBody)

\* the values of a mapping handed to Event.__init__
StrVal == [tag |-> "str", first |-> CharBody]

DictVal == [tag |-> "dict", first |-> NoBody]

ListVal(body) == [tag |-> "list", first |-> body]

Mapping(keys, vals) == [keys |-> keys, vals |-> vals]

\* Event.__init__: the type is the second key, the payload is element 0 of
\* the value under it
EventInitFirstKey(cls, data) ==
    LET v == data.vals[1] IN
    IF v.tag = "dict"
    THEN [err |-> "KeyError", obj |-> Object(cls, 0, "", NoInt, data.keys[1], NoBody)]
    ELSE [err |-> "", obj |-> Object(cls, 0, "", NoInt, data.keys[1], v.first)]
EventInit(cls, data) ==
    LET v == data.vals[2] IN
    IF v.tag = "dict"
    THEN [err |-> "KeyError", obj |-> Object(cls, 0, "", NoInt, data.keys[2], NoBody)]
    ELSE [err |-> "", obj |-> Object(cls, 0, "", NoInt, data.keys[2], v.first)]

\* enums.ActionEventType and enums.UserActionEventType, by value
ActionEventType ==
    {"direct_message_mark_read_events", "direct_message_indicate_typing_events"}

UserActionEventType == {"follow_events", "block_events", "mute_events"}

\* Event.type: ActionEventType(self._type), else UserActionEventType(self._type)
Event_type(event) ==
    IF event.type_key \in ActionEventType THEN [err |-> "", value |-> event.type_key]
    ELSE IF event.type_key \in UserActionEventType
         THEN [err |-> "", value |-> event.type_key]
    ELSE [err |-> "ValueError", value |-> ""]

\* UserActionEvent.source / UserFollowActionEvent.follower
follower(event) ==
    IF event.body.tag = "dict" THEN [err |-> "", id |-> event.body.source]
    ELSE [err |-> "AttributeError", id |-> 0]

\* UserActionEvent.target
target(event) ==
    IF event.body.tag = "dict" THEN [err |-> "", id |-> event.body.target]
    ELSE [err |-> "AttributeError", id |-> 0]

Keys(cache) == {cache[i].key : i \in 1..Len(cache)}

\* dict.pop(k)
DictPopNothing(d, k) == d
DictPop(d, k) ==
    LET keep == {i \in 1..Len(d) : d[i].key # k}
        F[i \in 0..Len(d)] ==
            IF i = 0 THEN <<>>
            ELSE IF i \in keep THEN Append(F[i - 1], d[i]) ELSE F[i - 1]
    IN F[Len(d)]

\* "if x.id != self.client_id: self.http_client.user_cache[x.id] = x"
CacheUserAlways(uc, cid, user) == DictSet(uc, user.id, user)
CacheUser(uc, cid, user) ==
    IF user.id # cid THEN DictSet(uc, user.id, user) ELSE uc

\* the caches and the dispatches made while one delivery is processed
Caches(uc, tc, mc) == [uc |-> uc, tc |-> tc, mc |-> mc]

\* self.http_client.dispatch(channel, obj), with the caches as they are then
Dispatch(channel, obj, c) ==
    [channel |-> channel, obj |-> obj,
     at |-> [users |-> Keys(c.uc), tweets |-> Keys(c.tc), messages |-> Keys(c.mc)]]

Done(c, dispatches, err, parts) ==
    [c |-> c, dispatches |-> dispatches, err |-> err, parts |-> parts]

UserActionTypes == {"follow", "unfollow", "block", "unblock", "mute", "unmute"}

\* the top-level key a user action is delivered under
FamilyOf(type) ==
    CASE type \in {"block", "unblock"} -> "block_events"
      [] type \in {"mute", "unmute"} -> "mute_events"
      [] OTHER -> "follow_events"

\* the if/elif chain of parse_user_action: class and channel per event type
ActionClass(type) ==
    CASE type = "follow" -> "UserFollowActionEvent"
      [] type = "unfollow" -> "UserUnfollowActionEvent"
      [] type = "block" -> "UserBlockActionEvent"
      [] type = "unblock" -> "UserUnblockActionEvent"
      [] type = "mute" -> "UserMuteActionEvent"
      [] type = "unmute" -> "UserUnmuteActionEvent"
      [] OTHER -> ""

ActionChannelUnmuteAsMute(type) ==
    CASE type = "follow" -> "user_follow"
      [] type = "unfollow" -> "user_unfollow"
      [] type = "block" -> "user_block"
      [] type = "unblock" -> "user_unblock"
      [] type = "mute" -> "user_mute"
      [] type = "unmute" -> "user_mute"
      [] OTHER -> ""
ActionChannel(type) ==
    CASE type = "follow" -> "user_follow"
      [] type = "unfollow" -> "user_unfollow"
      [] type = "block" -> "user_block"
      [] type = "unblock" -> "user_unblock"
      [] type = "mute" -> "user_mute"
      [] type = "unmute" -> "user_unmute"
      [] OTHER -> ""

\* d = [type, source, target]: the first event of the delivery
ParseUserAction(cid, c, d) ==
    LET tgt == UserObject(parse_user_payload(WireUser(d.target)).out)
        src == UserObject(parse_user_payload(WireUser(d.source)).out)
        body == Body(d.type, src.id, tgt.id, 0, 0)
        c1 == [c EXCEPT !.uc = CacheUser(CacheUser(@, cid, tgt), cid, src)]
        ev == EventInit(ActionClass(d.type),
                        Mapping(<<"for_user_id", FamilyOf(d.type)>>,
                                <<StrVal, ListVal(body)>>))
        parts == {src.id, tgt.id}
    IN IF ActionClass(d.type) = "" THEN Done(c1, <<>>, "", parts)
       ELSE IF ev.err # "" THEN Done(c1, <<>>, ev.err, parts)
       ELSE Done(c1, <<Dispatch(ActionChannel(d.type), ev.obj, c1)>>, "", parts)

\* d = [id, sender, recipient]
ParseDirectMessageCreate(cid, c, d) ==
    LET recipient == UserObject(parse_user_payload(WireUser(d.recipient)).out)
        sender == UserObject(parse_user_payload(WireUser(d.sender)).out)
        dm == DirectMessageObject(d.id)
        c1 == [c EXCEPT !.uc = CacheUser(CacheUser(@, cid, recipient), cid, sender)]
        c2 == [c1 EXCEPT !.mc = DictSet(@, dm.id, dm)]
    IN Done(c2, <<Dispatch("direct_message", dm, c2)>>, "", {sender.id, recipient.id})

\* parse_direct_message_typing / parse_direct_message_read;
\* d = [sender, recipient]
ParseDirectMessageIndicator(cls, channel, cid, c, d) ==
    LET recipient == UserObject(parse_user_payload(WireUser(d.recipient)).out)
        sender == UserObject(parse_user_payload(WireUser(d.sender)).out)
        c1 == [c EXCEPT !.uc = CacheUser(CacheUser(@, cid, recipient), cid, sender)]
        ev == EventInit(cls, Mapping(<<"created_timestamp", "sender_id", "target">>,
                                     <<StrVal, StrVal, DictVal>>))
        parts == {sender.id, recipient.id}
    IN IF ev.err # "" THEN Done(c1, <<>>, ev.err, parts)
       ELSE Done(c1, <<Dispatch(channel, ev.obj, c1)>>, "", parts)

\* UserRevokeEvent(action_payload) reads data.get("revoke"): absent in the
\* delivery itself (None has no keys); in the user_event mapping it has the
\* keys date_time, target, source, and target is itself a mapping
ParseUserRevoke(cid, c, d) ==
    LET ev == EventInit("UserRevokeEvent",
                        Mapping(<<"date_time", "target", "source">>,
                                <<StrVal, DictVal, DictVal>>))
    IN IF d.shape = "delivery" THEN Done(c, <<>>, "AttributeError", {})
       ELSE IF ev.err # "" THEN Done(c, <<>>, ev.err, {})
       ELSE Done(c, <<Dispatch("user_revoke", ev.obj, c)>>, "", {})

\* d = [tweet]: the tweet object of the delivery
ParseTweetCreateDispatchFirst(cid, c, d) ==
    LET n == parse_tweet_payload(d.tweet)
        tweet == TweetObject(n.out)
        c1 == [c EXCEPT !.tc = DictSet(@, tweet.id, tweet)]
    IN IF n.err # "" THEN Done(c, <<>>, n.err, {})
       ELSE Done(c1, <<Dispatch("tweet_create", tweet, c)>>, "", {})
ParseTweetCreate(cid, c, d) ==
    LET n == parse_tweet_payload(d.tweet)
        tweet == TweetObject(n.out)
        c1 == [c EXCEPT !.tc = DictSet(@, tweet.id, tweet)]
    IN IF n.err # "" THEN Done(c, <<>>, n.err, {})
       ELSE Done(c1, <<Dispatch("tweet_create", tweet, c1)>>, "", {})

\* "if not tweet": the tweet is not in the cache
NeverMissing(found) == FALSE
Missing(found) == ~found.present

\* d = [id, timestamp_ms]
ParseTweetDelete(cid, c, d) ==
    LET found == DictGet(c.tc, IntOf(d.id))
        c1 == [c EXCEPT !.tc = DictPop(@, IntOf(d.id))]
        tweet == [found.items EXCEPT !.deleted_timestamp = Some(IntOf(d.timestamp_ms))]
    IN IF Missing(found)
       THEN Done(c, <<Dispatch("tweet_delete", Placeholder(d.id), c)>>, "", {})
       ELSE IF ~found.present THEN Done(c1, <<>>, "AttributeError", {})
       ELSE Done(c1, <<Dispatch("tweet_delete", tweet, c1)>>, "", {})

\* d = [liker, tweet]
ParseFavoriteTweet(cid, c, d) ==
    LET n == parse_tweet_payload(d.tweet)
        tweet == TweetObject(n.out)
        user == UserObject(parse_user_payload(WireUser(d.liker)).out)
        c1 == [c EXCEPT !.uc = CacheUser(@, cid, user)]
        ev == EventInit("TweetFavoriteActionEvent",
                        Mapping(<<"for_user_id", "favorite_events">>,
                                <<StrVal, ListVal(Body("", 0, 0, user.id, tweet.id))>>))
    IN IF n.err # "" THEN Done(c, <<>>, n.err, {})
       ELSE IF ev.err # "" THEN Done(c1, <<>>, ev.err, {user.id})
       ELSE Done(c1, <<Dispatch("tweet_favorite", ev.obj, c1)>>, "", {user.id})

\* ---------------------------------------------------------- EventSpec
\* what one delivery carries, as far as the parser reads it
NoArg ==
    [type |-> "", source |-> "", target |-> "", sender |-> "", recipient |-> "",
     id |-> "", liker |-> "", shape |-> "", timestamp_ms |-> ""]

\* a tweet object without entities, user and timestamp_ms
BareTweet(id) == LegacyTweet(id, Some(3), NoEntities, NoStr, NoEmbeddedUser)

\* the tweet object of a delivery
TweetOf(d) == IF d.shape = "bare" THEN BareTweet(d.id) ELSE WireTweet(d.id)

\* a user-action type outside the six the chain knows
OtherActionTypes == {"subscribe"}

\* the ids the authenticated account may have
ClientIds == {1, 10}

\* EventParser.__init__ and an http client with empty caches
EventInitial ==
    /\ CursorIdle
    /\ ParserIdle
    /\ ConcIdle
    /\ client_id \in ClientIds
    /\ user_cache = <<>>
    /\ tweet_cache = <<>>
    /\ message_cache = <<>>
    /\ dispatched = <<>>
    /\ ecall = [method |-> "none"]
    /\ seen = {}

\* one delivery handled by one method
Deliver(method, d, r) ==
    /\ user_cache' = r.c.uc
    /\ tweet_cache' = r.c.tc
    /\ message_cache' = r.c.mc
    /\ dispatched' = r.dispatches
    /\ ecall' = [method |-> method, arg |-> d, err |-> r.err]
    /\ seen' = seen \cup r.parts
    /\ UNCHANGED <<client_id, vars, parserVars, concVars>>

Now == Caches(user_cache, tweet_cache, message_cache)

parse_direct_message_create ==
    \E s \in UserIds, t \in UserIds, m \in MessageIds :
        s # t /\
        LET d == [NoArg EXCEPT !.sender = s, !.recipient = t, !.id = m] IN
        Deliver("parse_direct_message_create", d,
                ParseDirectMessageCreate(client_id, Now, d))

parse_direct_message_typing ==
    \E s \in UserIds, t \in UserIds :
        s # t /\
        LET d == [NoArg EXCEPT !.sender = s, !.recipient = t] IN
        Deliver("parse_direct_message_typing", d,
                ParseDirectMessageIndicator("DirectMessageTypingEvent", "typing",
                                            client_id, Now, d))

parse_direct_message_read ==
    \E s \in UserIds, t \in UserIds :
        s # t /\
        LET d == [NoArg EXCEPT !.sender = s, !.recipient = t] IN
        Deliver("parse_direct_message_read", d,
                ParseDirectMessageIndicator("DirectMessageReadEvent", "read",
                                            client_id, Now, d))

parse_user_revoke ==
    \E sh \in {"delivery", "user_event"} :
        LET d == [NoArg EXCEPT !.shape = sh] IN
        Deliver("parse_user_revoke", d, ParseUserRevoke(client_id, Now, d))

parse_user_action ==
    \E ty \in UserActionTypes \cup OtherActionTypes, s \in UserIds, t \in UserIds :
        s # t /\
        LET d == [NoArg EXCEPT !.type = ty, !.source = s, !.target = t] IN
        Deliver("parse_user_action", d, ParseUserAction(client_id, Now, d))

parse_tweet_create ==
    \E i \in TweetIds, sh \in {"full", "bare"} :
        LET d == [NoArg EXCEPT !.id = i, !.shape = sh] IN
        Deliver("parse_tweet_create", d,
                ParseTweetCreate(client_id, Now, [tweet |-> TweetOf(d)]))

parse_tweet_delete ==
    \E i \in TweetIds :
        LET d == [NoArg EXCEPT !.id = i, !.timestamp_ms = "1600"] IN
        Deliver("parse_tweet_delete", d, ParseTweetDelete(client_id, Now, d))

parse_favorite_tweet ==
    \E u \in UserIds, i \in TweetIds, sh \in {"full", "bare"} :
        LET d == [NoArg EXCEPT !.liker = u, !.id = i, !.shape = sh] IN
        Deliver("parse_favorite_tweet", d,
                ParseFavoriteTweet(client_id, Now, [liker |-> u, tweet |-> TweetOf(d)]))

EventNext ==
    \/ parse_direct_message_create
    \/ parse_direct_message_typing
    \/ parse_direct_message_read
    \/ parse_user_revoke
    \/ parse_user_action
    \/ parse_tweet_create
    \/ parse_tweet_delete
    \/ parse_favorite_tweet

EventSpec == EventInitial /\ [][EventNext]_allVars

\* ----------------------------------------------- EventParser properties
LastIs(method) == ecall.method = method

\* the last delivery made exactly one dispatch, on this channel, of this class
OneDispatch(channel, cls) ==
    /\ Len(dispatched) = 1
    /\ dispatched[1].channel = channel
    /\ dispatched[1].obj.cls = cls

Cached(id) == id \in Keys(user_cache)

\* C11: a follow delivery with source S and target T, neither the client,
\* makes exactly one dispatch, on user_follow, of a UserFollowActionEvent whose
\* follower has id S and whose target has id T, and both are then in the
\* identity cache.
C11_FollowDispatch ==
    (/\ LastIs("parse_user_action")
     /\ ecall.arg.type = "follow"
     /\ IntOf(ecall.arg.source) # client_id
     /\ IntOf(ecall.arg.target) # client_id)
    => /\ ecall.err = ""
       /\ OneDispatch("user_follow", "UserFollowActionEvent")
       /\ follower(dispatched[1].obj) = [err |-> "", id |-> IntOf(ecall.arg.source)]
       /\ target(dispatched[1].obj) = [err |-> "", id |-> IntOf(ecall.arg.target)]
       /\ Cached(IntOf(ecall.arg.source))
       /\ Cached(IntOf(ecall.arg.target))

C11_Witness ==
    /\ LastIs("parse_user_action")
    /\ ecall.arg.type = "follow"
    /\ ecall.arg.source = "10"
    /\ ecall.arg.target = "20"
    /\ client_id = 1
    /\ Keys(user_cache) = {10, 20}
    /\ Len(dispatched) = 1

\* C12: whatever identity-bearing deliveries were handled, the identity cache
\* has no entry under the client's own id, and has an entry, under its numeric
\* id, for every participant of them other than the client.
C12_CacheHoldsOthersOnly ==
    /\ ~Cached(client_id)
    /\ \A p \in seen \ {client_id} :
        /\ DictGet(user_cache, p).present
        /\ DictGet(user_cache, p).items.id = p

C12_Witness ==
    /\ client_id \in seen
    /\ seen = {1, 10, 20}
    /\ Keys(user_cache) = seen \ {client_id}
    /\ LastIs("parse_favorite_tweet")

\* C13: a tweet-delete delivery for an id that is not in the tweet cache makes
\* exactly one dispatch, on tweet_delete, of a placeholder that carries only
\* the tweet id; nothing is raised and the tweet cache stays as it was.
C13_DeleteUncached ==
    [][(/\ ecall'.method = "parse_tweet_delete"
        /\ ~DictGet(tweet_cache, IntOf(ecall'.arg.id)).present)
       => /\ ecall'.err = ""
          /\ Len(dispatched') = 1
          /\ dispatched'[1].channel = "tweet_delete"
          /\ dispatched'[1].obj = Placeholder(ecall'.arg.id)
          /\ tweet_cache' = tweet_cache]_allVars

C13_Witness ==
    /\ LastIs("parse_tweet_delete")
    /\ ecall.arg.id = "100"
    /\ Keys(tweet_cache) = {101}
    /\ Len(dispatched) = 1
    /\ dispatched[1].obj.cls = "Message"
    /\ dispatched[1].obj.ref = "100"

\* C14: a user-action delivery whose type is none of follow, unfollow, block,
\* unblock, mute, unmute is answered with UnrecognizedEventKind.
C14_UnknownTypeSignalled ==
    (/\ LastIs("parse_user_action")
     /\ ecall.arg.type \notin {"follow", "unfollow", "block", "unblock", "mute", "unmute"})
    => ecall.err = "UnrecognizedEventKind"

\* C15: a user-action delivery of type t, one of the six, makes exactly one
\* dispatch, on channel user_<t>, of the event class of t.
C15_OneChannelPerType ==
    LastIs("parse_user_action") =>
        /\ ecall.arg.type = "follow" => OneDispatch("user_follow", "UserFollowActionEvent")
        /\ ecall.arg.type = "unfollow" => OneDispatch("user_unfollow", "UserUnfollowActionEvent")
        /\ ecall.arg.type = "block" => OneDispatch("user_block", "UserBlockActionEvent")
        /\ ecall.arg.type = "unblock" => OneDispatch("user_unblock", "UserUnblockActionEvent")
        /\ ecall.arg.type = "mute" => OneDispatch("user_mute", "UserMuteActionEvent")
        /\ ecall.arg.type = "unmute" => OneDispatch("user_unmute", "UserUnmuteActionEvent")

C15_Witness ==
    /\ LastIs("parse_user_action")
    /\ ecall.arg.type = "unmute"
    /\ OneDispatch("user_unmute", "UserUnmuteActionEvent")

\* the caches as a handler called by dispatch would read them
CacheKeys ==
    [users |-> Keys(user_cache), tweets |-> Keys(tweet_cache),
     messages |-> Keys(message_cache)]

\* C28: a tweet-create delivery for id X caches the tweet under X; a
\* tweet-delete delivery for X while it is cached makes one dispatch, on
\* tweet_delete, of the cached Tweet with its deleted timestamp set, and removes
\* X from the tweet cache; a tweet-delete delivery for X after that dispatches
\* the id-only placeholder.
C28_TweetLifecycle ==
    [][LET X == IntOf(ecall'.arg.id) IN
       /\ (ecall'.method = "parse_tweet_create" /\ ecall'.err = "")
            => /\ DictGet(tweet_cache', X).present
               /\ DictGet(tweet_cache', X).items.cls = "Tweet"
               /\ DictGet(tweet_cache', X).items.id = X
       /\ (ecall'.method = "parse_tweet_delete" /\ DictGet(tweet_cache, X).present)
            => /\ ecall'.err = ""
               /\ Len(dispatched') = 1
               /\ dispatched'[1].channel = "tweet_delete"
               /\ dispatched'[1].obj.cls = "Tweet"
               /\ dispatched'[1].obj.id = X
               /\ dispatched'[1].obj.deleted_timestamp = Some(IntOf(ecall'.arg.timestamp_ms))
               /\ Keys(tweet_cache') = Keys(tweet_cache) \ {X}
       /\ (ecall'.method = "parse_tweet_delete" /\ ~DictGet(tweet_cache, X).present)
            => /\ Len(dispatched') = 1
               /\ dispatched'[1].obj.cls = "Message"
               /\ dispatched'[1].obj.ref = ecall'.arg.id]_allVars

C28_Witness ==
    /\ LastIs("parse_tweet_delete")
    /\ ecall.arg.id = "101"
    /\ Len(dispatched) = 1
    /\ dispatched[1].obj.cls = "Tweet"
    /\ dispatched[1].obj.id = 101
    /\ dispatched[1].obj.deleted_timestamp = Some(1600)
    /\ 101 \notin Keys(tweet_cache)

\* C29: every dispatch of a delivery is made after the delivery's cache
\* updates: the caches a handler reads during the dispatch are the caches as
\* they are once the delivery has been processed.
C29_CachesUpdatedBeforeDispatch ==
    \A i \in 1..Len(dispatched) : dispatched[i].at = CacheKeys

C29_Witness ==
    /\ LastIs("parse_direct_message_create")
    /\ Len(dispatched) = 1
    /\ dispatched[1].at.messages = {500}
    /\ dispatched[1].at.users = {10}
    /\ seen = {1, 10}

\* the second top-level key of the last delivery
DeliveryKey ==
    CASE LastIs("parse_direct_message_typing") -> "direct_message_indicate_typing_events"
      [] LastIs("parse_direct_message_read") -> "direct_message_mark_read_events"
      [] LastIs("parse_favorite_tweet") -> "favorite_events"
      [] LastIs("parse_user_action") /\ ecall.arg.type \in {"block", "unblock"} -> "block_events"
      [] LastIs("parse_user_action") /\ ecall.arg.type \in {"mute", "unmute"} -> "mute_events"
      [] LastIs("parse_user_action") -> "follow_events"
      [] OTHER -> ""

\* C30: the type property of every event object that is dispatched
\* (typing, read, favorite, the six user actions) returns an enumerated kind,
\* the one named by the second top-level key of the delivery, and does not
\* raise.
C30_EventTypeReadable ==
    \A i \in 1..Len(dispatched) :
        dispatched[i].obj.cls \notin {"Tweet", "Message", "DirectMessage"}
            => Event_type(dispatched[i].obj) = [err |-> "", value |-> DeliveryKey]

\* ================================================ concurrent cursor calls
\* the invocations of next_page / previous_page made on the one cursor
Calls == {1, 2}

\* the pages the endpoint serves, in order; page i is reached with token i
ServerPages == 3

TokenOf(i) == CASE i = 1 -> "p1" [] i = 2 -> "p2" [] i = 3 -> "p3" [] OTHER -> None

PageOfToken(t) == CHOOSE i \in 1..ServerPages : TokenOf(i) = t

ServerPage(i) ==
    Page(Data(<<Raw(i)>>),
         Meta(IF i < ServerPages THEN TokenOf(i + 1) ELSE None,
              IF i > 1 THEN TokenOf(i - 1) ELSE None),
         NoUsers)

\* self.http_client.request(..., params=self._params)
Request(token) == ServerPage(PageOfToken(token))

\* "self._current_page_number += 1" / "-= 1"
DeltaAlwaysForward(op) == 1
Delta(op) == IF op = "next" THEN 1 ELSE 0 - 1

NotCalled ==
    [pc |-> "idle", op |-> "", res |-> NoRes, previous_content |-> <<>>,
     loaded |-> 0, sent |-> None, result |-> ""]

Quiet(t) == threads[t].pc \in {"idle", "done"}

\* UserPagination.__init__ on one of the served pages
ConcInit ==
    /\ kind = "user"
    /\ strictDecoder = FALSE
    /\ constructed = TRUE
    /\ page1 \in {ServerPage(i) : i \in 1..ServerPages}
    /\ LET o == Construct(kind, strictDecoder, page1) IN
        /\ original_payload = o.st.op
        /\ payload = o.st.pl
        /\ next_token = o.st.nt
        /\ previous_token = o.st.pt
        /\ current_page_number = o.st.cpn
        /\ pages_cache = o.st.cache
    /\ params = None
    /\ trail = <<>>
    /\ res = NoRes
    /\ serialized \in BOOLEAN
    /\ meta = page1.meta
    /\ threads = [t \in Calls |-> NotCalled]
    /\ ParserIdle
    /\ EventsIdle

Fixed == UNCHANGED <<kind, strictDecoder, constructed, page1, trail, res, serialized,
                     parserVars, eventVars>>

Goto(t, label) == threads' = [threads EXCEPT ![t].pc = label]

Finish(t, result) == threads' = [threads EXCEPT ![t].pc = "done", ![t].result = result]

At(t, label) == threads[t].pc = label

\* the method is entered; under the lock only while no other call is inside
Enter(t, op) ==
    /\ At(t, "idle")
    /\ serialized => \A u \in Calls \ {t} : Quiet(u)
    /\ threads' = [threads EXCEPT ![t].pc = "check", ![t].op = op]
    /\ UNCHANGED <<original_payload, payload, next_token, previous_token,
                   current_page_number, params, pages_cache, meta>>
    /\ Fixed

TokenRead(t) == IF threads[t].op = "next" THEN next_token ELSE previous_token

\* if not self._next_token: raise NoPageAvailable()
CheckToken(t) ==
    /\ At(t, "check")
    /\ IF Falsy(TokenRead(t)) THEN Finish(t, "NoPageAvailable") ELSE Goto(t, "param")
    /\ UNCHANGED <<original_payload, payload, next_token, previous_token,
                   current_page_number, params, pages_cache, meta>>
    /\ Fixed

\* self._params["pagination_token"] = self._next_token
StoreParam(t) ==
    /\ At(t, "param")
    /\ params' = TokenRead(t)
    /\ Goto(t, "request")
    /\ UNCHANGED <<original_payload, payload, next_token, previous_token,
                   current_page_number, pages_cache, meta>>
    /\ Fixed

\* res = self.http_client.request(...); if not res: raise NoPageAvailable()
Fetch(t) ==
    /\ At(t, "request")
    /\ LET r == IF Falsy(params) THEN NoRes ELSE Request(params) IN
       IF IsEmpty(r)
       THEN threads' = [threads EXCEPT ![t].pc = "done", ![t].sent = params,
                                       ![t].result = "NoPageAvailable"]
       ELSE threads' = [threads EXCEPT ![t].pc = "previous_content", ![t].res = r,
                                       ![t].sent = params]
    /\ UNCHANGED <<original_payload, payload, next_token, previous_token,
                   current_page_number, params, pages_cache, meta>>
    /\ Fixed

\* previous_content = self.content
ReadContent(t) ==
    /\ At(t, "previous_content")
    /\ LET c == content(kind, strictDecoder, original_payload, payload) IN
       IF c.err # "" THEN Finish(t, c.err)
       ELSE threads' = [threads EXCEPT ![t].pc = "load", ![t].previous_content = c.items]
    /\ UNCHANGED <<original_payload, payload, next_token, previous_token,
                   current_page_number, params, pages_cache, meta>>
    /\ Fixed

\* self._current_page_number += 1: the read
LoadPageNumber(t) ==
    /\ At(t, "load")
    /\ threads' = [threads EXCEPT ![t].pc = "store", ![t].loaded = current_page_number]
    /\ UNCHANGED <<original_payload, payload, next_token, previous_token,
                   current_page_number, params, pages_cache, meta>>
    /\ Fixed

\* self._current_page_number += 1: the write
StorePageNumber(t) ==
    /\ At(t, "store")
    /\ current_page_number' = threads[t].loaded + Delta(threads[t].op)
    /\ Goto(t, "original_payload")
    /\ UNCHANGED <<original_payload, payload, next_token, previous_token,
                   params, pages_cache, meta>>
    /\ Fixed

\* self.original_payload = res
SetOriginalPayload(t) ==
    /\ At(t, "original_payload")
    /\ original_payload' = threads[t].res
    /\ Goto(t, "payload")
    /\ UNCHANGED <<payload, next_token, previous_token, current_page_number,
                   params, pages_cache, meta>>
    /\ Fixed

\* self.payload = self.original_payload.get("data")
SetPayload(t) ==
    /\ At(t, "payload")
    /\ payload' = original_payload.data
    /\ Goto(t, "meta")
    /\ UNCHANGED <<original_payload, next_token, previous_token, current_page_number,
                   params, pages_cache, meta>>
    /\ Fixed

\* self._meta = self.original_payload.get("meta")
SetMeta(t) ==
    /\ At(t, "meta")
    /\ meta' = original_payload.meta
    /\ Goto(t, "next_token")
    /\ UNCHANGED <<original_payload, payload, next_token, previous_token,
                   current_page_number, params, pages_cache>>
    /\ Fixed

\* self._next_token = self._meta.get("next_token")
SetNextToken(t) ==
    /\ At(t, "next_token")
    /\ IF meta.present
       THEN next_token' = meta.next_token /\ Goto(t, "previous_token")
       ELSE next_token' = next_token /\ Finish(t, "AttributeError")
    /\ UNCHANGED <<original_payload, payload, previous_token, current_page_number,
                   params, pages_cache, meta>>
    /\ Fixed

\* self._previous_token = self._meta.get("previous_token")
SetPreviousToken(t) ==
    /\ At(t, "previous_token")
    /\ IF meta.present
       THEN previous_token' = meta.previous_token /\ Goto(t, "cache")
       ELSE previous_token' = previous_token /\ Finish(t, "AttributeError")
    /\ UNCHANGED <<original_payload, payload, next_token, current_page_number,
                   params, pages_cache, meta>>
    /\ Fixed

\* if not previous_content[0] == self.content[0]: self.pages_cache[...] = {...}
CacheStatement(t) ==
    /\ At(t, "cache")
    /\ LET o == CachePage(kind, strictDecoder, Current, threads[t].previous_content) IN
        /\ pages_cache' = o.st.cache
        /\ Finish(t, o.result)
    /\ UNCHANGED <<original_payload, payload, next_token, previous_token,
                   current_page_number, params, meta>>
    /\ Fixed

ConcNext ==
    \E t \in Calls :
        \/ Enter(t, "next")
        \/ Enter(t, "previous")
        \/ CheckToken(t)
        \/ StoreParam(t)
        \/ Fetch(t)
        \/ ReadContent(t)
        \/ LoadPageNumber(t)
        \/ StorePageNumber(t)
        \/ SetOriginalPayload(t)
        \/ SetPayload(t)
        \/ SetMeta(t)
        \/ SetNextToken(t)
        \/ SetPreviousToken(t)
        \/ CacheStatement(t)

ConcSpec == ConcInit /\ [][ConcNext]_allVars

\* ------------------------------------------------ concurrency properties
\* the served page the cursor holds, counted from the page it started on
Position == payload.items[1].id - page1.data.items[1].id

Succeeded(t, op) ==
    threads[t].pc = "done" /\ threads[t].op = op /\ threads[t].result = "ok"

\* two next_page calls fetched with one token, and the page number went up
\* by two while the cursor moved one page
LostPage ==
    /\ Succeeded(1, "next") /\ Succeeded(2, "next")
    /\ threads[1].sent = threads[2].sent
    /\ current_page_number = 3
    /\ Position = 1

\* C22: when the calls on a cursor are serialized, no two next_page calls
\* fetch with the same token and, between calls, current_page_number has moved
\* exactly as far as the cursor has; without serialization two next_page calls
\* can both fetch with the same token and leave current_page_number two higher
\* with the cursor one page further.
C22_SerializedCallsStayInSync ==
    (serialized /\ \A t \in Calls : Quiet(t))
        => /\ current_page_number - 1 = Position
           /\ ~LostPage
           /\ (Succeeded(1, "next") /\ Succeeded(2, "next"))
                => threads[1].sent # threads[2].sent

C22_Witness == ~serialized /\ LostPage

====
